---------------------------- MODULE Spec2Model ----------------------------
(***************************************************************************)
(* A model of the Eizen HNSW vector index (src/Eizen/src/hnsw.ts) over its *)
(* key-value graph store (src/Eizen/src/db/index.ts).                      *)
(*                                                                         *)
(* The key-value store is the variable kv.  insert is a sequence of steps,  *)
(* one per KV call, over the store and the call's locals: a sequential run *)
(* takes the whole call as one action (Spec, SpecDeep, SpecMeta, SpecDim), *)
(* a concurrent run one action per step, interleaved with a knn_search     *)
(* that takes one action per KV read (SpecRace, SpecCancel) or with a      *)
(* second insert (SpecTwo); SpecSteps is the sequential run step by step.  *)
(* The batch calls safe_get_many and safe_set_many, which the sequential   *)
(* specifications take as accepted whole, are a process of their own in    *)
(* SpecBatch, where the backend may reject batches.                        *)
(*                                                                         *)
(* Numbers.  Distances are cosine distances scaled by Scale, so that they  *)
(* are exact integers for the vectors drawn (all of integer norm).  NaN is *)
(* the IEEE not-a-number: every ordered comparison with it is false.       *)
(*                                                                         *)
(* JS values.  null/undefined is <<>>, a string s is <<s>>, a decimal      *)
(* string holding n is <<n>>.                                              *)
(***************************************************************************)
EXTENDS Integers, Sequences, FiniteSets, TLC

(***************************************************************************)
(* Bounds of the model and the configuration it is run with.               *)
(***************************************************************************)
MaxPoints == 4
DeepMaxPoints == 6
MetaMaxPoints == 3
RaceMaxPoints == 2
StepMaxPoints == 3
TwoMaxPoints == 2
FailMaxPoints == 2
QuotaMaxReqs == 2
QuotaMaxLimit == 2
BatMaxPoints == 1
BatMaxKeys == 3
MaxRejects == 3
DimMaxPoints == 3
FunMaxNodes == 3
CfgM == 2
CfgEfConstruction == 2
CfgEfSearch == 2

\* the vectors inserted and queried: all of dimension 2 and of integer norm
Vecs == { <<1, 0>>, <<4, 3>>, <<0, 1>> }
\* the same with a vector of another dimension (no guard rejects it)
DimVecs == { <<1, 0>>, <<4, 3>>, <<1>> }
RaceVecs == { <<1, 0>>, <<0, 1>> }
\* enough points of few directions to fill and prune a layer-0 node
DeepVecs == { <<1, 0>>, <<0, 1>> }
MetaVecs == { <<1, 0>> }
\* the layers select_layer draws
Layers == { 0, 1 }
\* metadata arguments: none, the empty string (falsy), non-empty strings
Undefined == <<>>
Null == <<>>
Metas == { <<"a">> }
AllMetas == { Undefined, <<"">>, <<"a">>, <<"b">> }
SvcMetas == { <<"a">>, <<"b">> }
\* the K arguments of knn_search
Ks == { 1, MaxPoints + 1 }
RaceKs == { 1, 2 }

(***************************************************************************)
(* Numbers: cosine_distance and the comparisons of IEEE doubles.           *)
(***************************************************************************)
NaN == 9999
Scale == 25

Lt(a, b) == a # NaN /\ b # NaN /\ a < b
Gt(a, b) == a # NaN /\ b # NaN /\ a > b
Neg(a) == IF a = NaN THEN NaN ELSE 0 - a

RECURSIVE SumTo(_, _)
SumTo(f, n) == IF n = 0 THEN 0 ELSE f[n] + SumTo(f, n - 1)

\* a.reduce((sum, val, idx) => sum + val * b[idx], 0): b[idx] is undefined,
\* and the sum NaN, when a is longer than b
dot_product(a, b) ==
  IF Len(a) > Len(b) THEN NaN
  ELSE SumTo([i \in 1 .. Len(a) |-> a[i] * b[i]], Len(a))

\* Math.sqrt of the sum of squares (exact: the vectors drawn have integer norm)
norm(a) ==
  LET s == SumTo([i \in 1 .. Len(a) |-> a[i] * a[i]], Len(a))
  IN CHOOSE n \in 0 .. s : n * n = s

\* 1 - dot_product(a, b) / (norm(a) * norm(b)), scaled by Scale
cosine_distance(a, b) ==
  LET d == dot_product(a, b)
  IN IF d = NaN THEN NaN
     ELSE Scale - ((Scale * d) \div (norm(a) * norm(b)))

(***************************************************************************)
(* NodeHeap: heap-js's binary min-heap of Node = <<distance, id>> under    *)
(* compareNode (a[0] - b[0]); heapArray is a sequence, 1-based here.       *)
(***************************************************************************)
\* compareNode(a, b) > 0 and < 0
compareGt(a, b) == Gt(a[1], b[1])
compareLt(a, b) == Lt(a[1], b[1])

Swap(h, i, j) == [h EXCEPT ![i] = h[j], ![j] = h[i]]

\* _sortNodeUp(i): while the parent compares greater, move up
RECURSIVE sortNodeUp(_, _)
sortNodeUp(h, i) ==
  IF i > 1 /\ compareGt(h[i \div 2], h[i])
  THEN sortNodeUp(Swap(h, i, i \div 2), i \div 2)
  ELSE h

\* _sortNodeDown(i): the best child is the left one unless the right one
\* compares smaller; move down while self compares greater than it
RECURSIVE sortNodeDown(_, _)
sortNodeDown(h, i) ==
  LET l == 2 * i
      r == 2 * i + 1
      best == IF r <= Len(h) /\ compareLt(h[r], h[l]) THEN r ELSE l
  IN IF l <= Len(h) /\ compareGt(h[i], h[best])
     THEN sortNodeDown(Swap(h, i, best), best)
     ELSE h

HeapPush(h, x) == sortNodeUp(Append(h, x), Len(h) + 1)

\* addAll: append every element, then sort each of them up in turn
RECURSIVE HeapAddAll(_, _)
HeapAddAll(h, elems) ==
  IF elems = <<>> THEN h
  ELSE HeapAddAll(HeapPush(h, Head(elems)), Tail(elems))

\* new NodeHeap(elems)
NodeHeap(elems) == HeapAddAll(<<>>, elems)

\* the heap left by pop(): the last element replaces the root and sinks
HeapPopRest(h) ==
  IF Len(h) <= 1 THEN <<>>
  ELSE sortNodeDown([SubSeq(h, 1, Len(h) - 1) EXCEPT ![1] = h[Len(h)]], 1)

\* top(1)[0], and the element pop() returns
HeapTop(h) == h[1]


(***************************************************************************)
(* State.                                                                  *)
(*   kv      the key-value store: ep, layers, points hold a decimal string *)
(*           or Null; point, meta, node map the ids (layer-id pairs) whose *)
(*           key is present to the stored string                           *)
(*   m, m_max0, ef_construction, ef   the fields the constructor sets      *)
(*   ins     the insert call in flight: its position and locals            *)
(*   srch    the knn_search call in flight (SpecRace)                      *)
(*   sres    the last knn_search call and what it returned                 *)
(*   got     the last get_vector call and what it returned                 *)
(*   hist    the insert calls that returned, in order                      *)
(***************************************************************************)
VARIABLES kv, m, m_max0, ef_construction, ef, ins, srch, sres, got, hist, bat, two,
          fun, svc, qta

vars == <<kv, m, m_max0, ef_construction, ef, ins, srch, sres, got, hist, bat, two,
          fun, svc, qta>>

(***************************************************************************)
(* Codec and string conversions.                                           *)
(***************************************************************************)
\* n.toString() and Number.parseInt
NumToString(n) == <<n>>
ParseInt(s) == s[1]

\* the protobuf codec: a lossless round trip of the record
encodePoint(p) == [pb |-> p]
decodePoint(data) == data.pb
encodeLayerNode(n) == [pb |-> n]
decodeLayerNode(data) == data.pb

\* JSON.stringify and JSON.parse of a string value <<s>>
JSONstringify(v) == <<"\"", v[1], "\"">>
JSONparse(t) == <<t[2]>>

\* if (metadata): absent and the empty string are falsy
Truthy(v) == v # Undefined /\ v # <<"">>

\* safeParse: data ? JSON.parse(data) : null
safeParse(data) == IF data = Null THEN Null ELSE JSONparse(data)

(***************************************************************************)
(* Graph store reads (EizenMemory).                                        *)
(***************************************************************************)
\* number | null, as <<n>> | Null
\* an entry point read that takes an absent key for point 0
get_ep_NoNull(s) == IF s.ep = Null THEN <<0>> ELSE <<ParseInt(s.ep)>>

get_ep(s) == IF s.ep = Null THEN Null ELSE <<ParseInt(s.ep)>>
get_num_layers(s) == IF s.layers = Null THEN 0 ELSE ParseInt(s.layers)
get_datasize(s) == IF s.points = Null THEN 0 ELSE ParseInt(s.points)

\* get_point throws when the key is absent
has_point(s, idx) == idx \in DOMAIN s.point
get_point(s, idx) == decodePoint(s.point[idx]).v

\* get_neighbor throws when the key is absent
has_neighbor(s, layer, idx) == <<layer, idx>> \in DOMAIN s.node
get_neighbor(s, layer, idx) == decodeLayerNode(s.node[<<layer, idx>>]).neighbors

get_metadata(s, idx) ==
  safeParse(IF idx \in DOMAIN s.meta THEN s.meta[idx] ELSE Null)

\* Object.keys of a record with integer keys: ascending
RECURSIVE Ascending(_)
Ascending(S) ==
  IF S = {} THEN <<>>
  ELSE LET mn == CHOOSE x \in S : \A y \in S : x <= y
       IN <<mn>> \o Ascending(S \ {mn})

ObjectKeys(node) == Ascending(DOMAIN node)

SeqFilter(sq, S) == SelectSeq(sq, LAMBDA x : x \notin S)
NodeIds(nodes) == { nodes[i][2] : i \in 1 .. Len(nodes) }
Negated(nodes) == [i \in 1 .. Len(nodes) |-> <<Neg(nodes[i][1]), nodes[i][2]>>]

(***************************************************************************)
(* search_layer, one KV read at a time.  A search state is                 *)
(*   st  "loop" (at the head of the while), "points" (between the          *)
(*       get_neighbor and the get_points of one iteration), "done", "err"  *)
(*   V, C, W  the visited set, the candidates and the results heap         *)
(*   f_dist, ns  the furthest distance and the neighbours of the iteration *)
(***************************************************************************)
\* entry points that are not marked visited
SLInit_NoVisited(ep) ==
  [st |-> "loop", V |-> {}, C |-> NodeHeap(ep),
   W |-> NodeHeap(Negated(ep)), f_dist |-> 0, ns |-> <<>>]

SLInit(ep) ==
  [st |-> "loop", V |-> NodeIds(ep), C |-> NodeHeap(ep),
   W |-> NodeHeap(Negated(ep)), f_dist |-> 0, ns |-> <<>>]

\* lines 270-290: pop the closest candidate, test the stopping condition,
\* read its layer node
SLGetNeighbor(s, st, l_c) ==
  IF st.C = <<>> \/ st.W = <<>> THEN [st EXCEPT !.st = "done"]
  ELSE LET c == HeapTop(st.C)
           f == Neg(HeapTop(st.W)[1])
       IN IF Gt(c[1], f) THEN [st EXCEPT !.st = "done"]
          ELSE IF ~has_neighbor(s, l_c, c[2]) THEN [st EXCEPT !.st = "err"]
          ELSE [st EXCEPT !.st = "points", !.C = HeapPopRest(st.C),
                          !.f_dist = f,
                          !.ns = SeqFilter(ObjectKeys(get_neighbor(s, l_c, c[2])), st.V)]

\* a forEach that never drops the furthest result
RECURSIVE SLForEach_NoDrop(_, _, _, _, _)
SLForEach_NoDrop(s, st, ns, q, efv) ==
  IF ns = <<>> THEN st
  ELSE LET e == Head(ns)
           dist == cosine_distance(get_point(s, e), q)
           take == Lt(dist, st.f_dist) \/ Len(st.W) < efv
           st1 == [st EXCEPT !.V = st.V \cup {e},
                             !.C = IF take THEN HeapPush(st.C, <<dist, e>>) ELSE st.C,
                             !.W = IF take THEN HeapPush(st.W, <<Neg(dist), e>>) ELSE st.W]
       IN SLForEach_NoDrop(s, st1, Tail(ns), q, efv)

\* lines 297-313: dists.forEach
RECURSIVE SLForEach(_, _, _, _, _)
SLForEach(s, st, ns, q, efv) ==
  IF ns = <<>> THEN st
  ELSE LET e == Head(ns)
           dist == cosine_distance(get_point(s, e), q)
           take == Lt(dist, st.f_dist) \/ Len(st.W) < efv
           W1 == HeapPush(st.W, <<Neg(dist), e>>)
           st1 == [st EXCEPT !.V = st.V \cup {e},
                             !.C = IF take THEN HeapPush(st.C, <<dist, e>>) ELSE st.C,
                             !.W = IF ~take THEN st.W
                                   ELSE IF Len(W1) > efv THEN HeapPopRest(W1) ELSE W1]
       IN SLForEach(s, st1, Tail(ns), q, efv)

\* lines 293-313: read the neighbours' points (get_points throws when one is
\* absent) and process them
SLGetPoints(s, st, q, efv) ==
  IF \E i \in 1 .. Len(st.ns) : ~has_point(s, st.ns[i])
  THEN [st EXCEPT !.st = "err"]
  ELSE [SLForEach(s, st, st.ns, q, efv) EXCEPT !.st = "loop", !.ns = <<>>, !.f_dist = 0]

\* lines 316-329: what search_layer returns
SLResult(st, efv) ==
  IF efv = 1
  THEN IF Len(st.W) # 0 THEN <<HeapTop(NodeHeap(Negated(st.W)))>> ELSE <<>>
  ELSE Negated(st.W)

RECURSIVE SLRun(_, _, _, _, _)
SLRun(s, st, q, efv, l_c) ==
  IF st.st = "loop" THEN SLRun(s, SLGetNeighbor(s, st, l_c), q, efv, l_c)
  ELSE IF st.st = "points" THEN SLRun(s, SLGetPoints(s, st, q, efv), q, efv, l_c)
  ELSE st

\* search_layer on the store s: [err, W]
search_layer(s, q, ep, efv, l_c) ==
  LET st == SLRun(s, SLInit(ep), q, efv, l_c)
  IN IF st.st = "err" THEN [err |-> TRUE, W |-> <<>>]
     ELSE [err |-> FALSE, W |-> SLResult(st, efv)]

(***************************************************************************)
(* select_neighbors (lines 367-417).                                       *)
(***************************************************************************)
M_max(l_c) == IF l_c > 0 THEN m ELSE m_max0

\* PHASE 1: state <<R, W, W_d>>
RECURSIVE SNGreedy(_, _, _, _)
SNGreedy(R, W, W_d, M) ==
  IF Len(W) > 0 /\ Len(R) < M
  THEN LET e == HeapTop(W)
       IN IF Len(R) = 0 \/ Lt(e[1], HeapTop(R)[1])
          THEN SNGreedy(HeapPush(R, e), HeapPopRest(W), W_d, M)
          ELSE SNGreedy(R, HeapPopRest(W), HeapPush(W_d, e), M)
  ELSE <<R, W_d>>

\* a PHASE 2 that adds nothing
SNFill_None(R, W_d, M) == R

\* PHASE 2
RECURSIVE SNFill(_, _, _)
SNFill(R, W_d, M) ==
  IF Len(W_d) > 0 /\ Len(R) < M
  THEN SNFill(HeapPush(R, HeapTop(W_d)), HeapPopRest(W_d), M)
  ELSE R

\* keepPrunedConnections taken for false
select_neighbors_NoKeep(q, C, l_c, keepPrunedConnections) ==
  SNGreedy(<<>>, NodeHeap(C), <<>>, M_max(l_c))[1]

select_neighbors(q, C, l_c, keepPrunedConnections) ==
  LET M == M_max(l_c)
      g == SNGreedy(<<>>, NodeHeap(C), <<>>, M)
  IN IF keepPrunedConnections THEN SNFill(g[1], g[2], M) ELSE g[1]

(***************************************************************************)
(* Graph store writes (EizenMemory), each one KV call.                     *)
(***************************************************************************)
\* an entry point that is written once and kept
set_ep_FirstOnly(s, id) == IF s.ep = Null THEN [s EXCEPT !.ep = NumToString(id)] ELSE s

set_ep(s, id) == [s EXCEPT !.ep = NumToString(id)]

\* new_point writing the id itself as the point count
new_point_set_points_SameCount(s, idx) == [s EXCEPT !.points = NumToString(idx)]

\* new_point's two writes (lines 135-137)
new_point_set_point(s, idx, q) ==
  [s EXCEPT !.point = (idx :> encodePoint([v |-> q, idx |-> idx])) @@ s.point]
new_point_set_points(s, idx) == [s EXCEPT !.points = NumToString(idx + 1)]

set_metadata(s, idx, data) ==
  [s EXCEPT !.meta = (idx :> JSONstringify(data)) @@ s.meta]

upsert_neighbor(s, layer, idx, node) ==
  [s EXCEPT !.node =
     (<<layer, idx>> :> encodeLayerNode([idx |-> idx, level |-> layer, neighbors |-> node]))
       @@ s.node]

\* safe_set_many of every node of the graph, accepted as one batch
upsert_neighbors(s, layer, nodes) ==
  [s EXCEPT !.node =
     [k \in { <<layer, i>> : i \in DOMAIN nodes } |->
        encodeLayerNode([idx |-> k[2], level |-> layer, neighbors |-> nodes[k[2]]])]
       @@ s.node]

\* a layers counter written one too low
set_layers_Stuck(s, n) == [s EXCEPT !.layers = NumToString(n - 1)]

\* new_neighbor's last write (line 284)
set_layers(s, n) == [s EXCEPT !.layers = NumToString(n)]

(***************************************************************************)
(* insert, PHASE 1 (lines 140-155): route from layer L down to l + 1.      *)
(***************************************************************************)
RECURSIVE RouteDown(_, _, _, _, _)
RouteDown(s, q, ep, i, l) ==
  IF i <= l THEN [err |-> FALSE, ep |-> ep]
  ELSE LET r == search_layer(s, q, ep, 1, i)
       IN IF r.err THEN [err |-> TRUE, ep |-> <<>>]
          ELSE RouteDown(s, q,
                         IF Len(r.W) > 0 /\ Gt(ep[1][1], r.W[1][1]) THEN r.W ELSE ep,
                         i - 1, l)

\* a route that starts with the entry point at distance 0
Route_ZeroDist(s, q, ep_index, L, l) ==
  IF ~has_point(s, ep_index) THEN [err |-> TRUE, ep |-> <<>>]
  ELSE RouteDown(s, q, << <<0, ep_index>> >>, L, l)

Route(s, q, ep_index, L, l) ==
  IF ~has_point(s, ep_index) THEN [err |-> TRUE, ep |-> <<>>]
  ELSE RouteDown(s, q, << <<cosine_distance(q, get_point(s, ep_index)), ep_index>> >>, L, l)

(***************************************************************************)
(* insert, PHASES 2-4 for one layer l_c (lines 160-204): the new node's    *)
(* adjacency and the chosen neighbours' updated (and pruned) adjacencies.  *)
(***************************************************************************)
\* Object.entries(node).map(([k, v]) => [v, parseInt(k)])
Entries(node) ==
  LET ks == ObjectKeys(node)
  IN [i \in 1 .. Len(ks) |-> <<node[ks[i]], ks[i]>>]

\* the record { id: distance } of a list of nodes
Dict(nodes) == [k \in NodeIds(nodes) |->
                  LET i == CHOOSE j \in 1 .. Len(nodes) :
                             nodes[j][2] = k /\ \A h \in (j + 1) .. Len(nodes) : nodes[h][2] # k
                  IN nodes[i][1]]

\* the prune taken one neighbour too late
Prune_OneTooLate(s, id, conn, l_c) ==
  LET M == IF l_c = 0 THEN m_max0 ELSE m
      eConn == Entries(conn)
  IN IF Len(eConn) > M + 1
     THEN Dict(select_neighbors(get_point(s, id), eConn, l_c, TRUE))
     ELSE conn

\* lines 181-204 for one chosen neighbour whose adjacency is conn
Prune(s, id, conn, l_c) ==
  LET M == IF l_c = 0 THEN m_max0 ELSE m
      eConn == Entries(conn)
  IN IF Len(eConn) > M
     THEN Dict(select_neighbors(get_point(s, id), eConn, l_c, TRUE))
     ELSE conn

Link(s, q, idx, ep, l_c) ==
  LET r == search_layer(s, q, ep, ef_construction, l_c)
      neighbors == select_neighbors(q, r.W, l_c, TRUE)
      indices == NodeIds(neighbors)
      newNode == Dict(neighbors)
      connected == [e \in indices |-> (idx :> newNode[e]) @@ get_neighbor(s, l_c, e)]
      M == IF l_c = 0 THEN m_max0 ELSE m
  IN IF r.err THEN [err |-> TRUE, ep |-> <<>>, newNode |-> <<>>, nodes |-> <<>>]
     ELSE IF \E e \in indices :
               \/ ~has_neighbor(s, l_c, e)
               \/ Cardinality(DOMAIN connected[e]) > M /\ ~has_point(s, e)
     THEN [err |-> TRUE, ep |-> <<>>, newNode |-> <<>>, nodes |-> <<>>]
     ELSE [err |-> FALSE, ep |-> r.W, newNode |-> newNode,
           nodes |-> [e \in indices |-> Prune(s, e, connected[e], l_c)]]

(***************************************************************************)
(* knn_search (lines 466-501) on the store s: [err, out].                  *)
(***************************************************************************)
\* Array.prototype.sort(compareNode): stable
RECURSIVE InsertSorted(_, _)
InsertSorted(sorted, x) ==
  IF sorted = <<>> THEN <<x>>
  ELSE IF compareGt(Head(sorted), x) THEN <<x>> \o sorted
  ELSE <<Head(sorted)>> \o InsertSorted(Tail(sorted), x)

RECURSIVE SortNodes(_)
SortNodes(sq) ==
  IF sq = <<>> THEN <<>>
  ELSE InsertSorted(SortNodes(SubSeq(sq, 1, Len(sq) - 1)), sq[Len(sq)])

\* ep.slice(0, K)
Slice(sq, K) == SubSeq(sq, 1, IF K < Len(sq) THEN K ELSE Len(sq))

\* lines 480-482: the routing loop with ef = 1
RECURSIVE KnnRoute(_, _, _, _)
KnnRoute(s, q, ep, l_c) ==
  IF l_c <= 0 THEN [err |-> FALSE, W |-> ep]
  ELSE LET r == search_layer(s, q, ep, 1, l_c)
       IN IF r.err THEN r ELSE KnnRoute(s, q, r.W, l_c - 1)

KnnResult(s, ep_topk) ==
  [i \in 1 .. Len(ep_topk) |->
     [id |-> ep_topk[i][2], distance |-> ep_topk[i][1],
      metadata |-> get_metadata(s, ep_topk[i][2])]]

knn_search(s, q, K) ==
  LET ep_index == get_ep(s)
      L == get_num_layers(s) - 1
      r1 == KnnRoute(s, q, << <<cosine_distance(q, get_point(s, ep_index[1])), ep_index[1]>> >>, L)
      r0 == search_layer(s, q, r1.W, ef, 0)
  IN IF ep_index = Null THEN [err |-> FALSE, out |-> <<>>]
     ELSE IF ~has_point(s, ep_index[1]) THEN [err |-> TRUE, out |-> <<>>]
     ELSE IF r1.err \/ r0.err THEN [err |-> TRUE, out |-> <<>>]
     ELSE [err |-> FALSE, out |-> KnnResult(s, Slice(SortNodes(r0.W), K))]

(***************************************************************************)
(* Init: the state after construction, on an empty contract.               *)
(***************************************************************************)
EmptyKv ==
  [ep |-> Null, layers |-> Null, points |-> Null,
   point |-> <<>>, meta |-> <<>>, node |-> <<>>]

InsIdle ==
  [pc |-> "idle", q |-> <<>>, metadata |-> Undefined, ep_index |-> Null,
   L |-> 0, l |-> 0, idx |-> 0, ep |-> <<>>, l_c |-> 0,
   newNode |-> <<>>, nodes |-> <<>>, LL |-> 0, i |-> 0, nl |-> 0]

SrchIdle ==
  [pc |-> "idle", q |-> <<>>, K |-> 0, ep_index |-> 0, L |-> 0, ep |-> <<>>,
   l_c |-> 0, st |-> SLInit(<<>>), topk |-> <<>>, out |-> <<>>]

NoSearch == [called |-> FALSE, q |-> <<>>, K |-> 0, err |-> FALSE, out |-> <<>>]

NoGet == [called |-> FALSE, idx |-> 0, err |-> FALSE, point |-> <<>>, metadata |-> Null]

\* safe_get_many / safe_set_many: no call yet.  A call in flight holds its
\* argument (keys, and vals for a set), the batches handed to the client and
\* not yet answered (pend, each the slice of n keys after the first lo), the
\* values the answered getMany batches gave (out, by position), the limit N
\* of the backend (0: a backend that rejects as it pleases) and the number
\* of batches rejected so far.
BatIdle ==
  [pc |-> "idle", op |-> "", keys |-> <<>>, vals |-> <<>>, pend |-> <<>>,
   out |-> <<>>, N |-> 0, rejects |-> 0]

\* two insert calls in flight on one index: the locals of each, and whether
\* one was called while the other was in flight
TwoIdle == [loc |-> [p \in {1, 2} |-> InsIdle], overlap |-> FALSE]

\* a call of select_neighbors or search_layer on arguments of its own: none yet
FunIdle ==
  [fn |-> "none", q |-> <<>>, ep |-> <<>>, C |-> <<>>, efv |-> 0, l_c |-> 0,
   err |-> FALSE, V |-> {}, out |-> <<>>]

\* EizenService.insertVector, two calls on one contract: none made yet
SvcIdle ==
  [p \in {1, 2} |->
     [pc |-> "idle", vectorId |-> 0, q |-> <<>>, metadata |-> Undefined, l |-> 0,
      success |-> FALSE]]

\* the subscriptions row of one user (none before the user subscribes), the
\* memories created for the user, and the POST /memories/insert requests
QtaIdle ==
  [row |-> FALSE, isActive |-> FALSE, quotaUsed |-> 0, quotaLimit |-> 0, created |-> 0,
   req |-> [p \in 1 .. QuotaMaxReqs |-> [pc |-> "idle", quotaUsed |-> 0, status |-> 0]]]

Init ==
  /\ kv = EmptyKv
  /\ m = CfgM
  /\ m_max0 = CfgM * 2
  /\ ef_construction = CfgEfConstruction
  /\ ef = CfgEfSearch
  /\ ins = InsIdle
  /\ srch = SrchIdle
  /\ sres = NoSearch
  /\ got = NoGet
  /\ hist = <<>>
  /\ bat = BatIdle
  /\ two = TwoIdle
  /\ fun = FunIdle
  /\ svc = SvcIdle
  /\ qta = QtaIdle

(***************************************************************************)
(* insert (lines 126-224), one step per KV call.  A step takes the store s *)
(* and the call's locals i and gives the store and the locals after it,    *)
(* with ret "run" (the call goes on), "ok" (it returned) or "throw".       *)
(* i.l is the value select_layer() draws in this call.                     *)
(***************************************************************************)
Run(s, i) == [kv |-> s, ins |-> i, ret |-> "run"]
Ok(s, i) == [kv |-> s, ins |-> i, ret |-> "ok"]
Throw(s, i) == [kv |-> s, ins |-> i, ret |-> "throw"]

\* where insert goes after new_point / set_metadata (line 139)
AfterMetadata(ep_index) == IF ep_index # Null THEN "route" ELSE "get_LL"

\* line 128: read the entry point
InsGetEp(s, i) ==
  Run(s, [i EXCEPT !.pc = "get_num_layers", !.ep_index = get_ep(s)])

\* a layer count read that writes the counter back
InsGetNumLayers_InitCount(s, i) ==
  Run(set_layers(s, get_num_layers(s)),
      [i EXCEPT !.pc = "get_datasize", !.L = get_num_layers(s) - 1])

\* lines 129-130: read the layer count (the layer drawn is i.l)
InsGetNumLayers(s, i) ==
  Run(s, [i EXCEPT !.pc = "get_datasize", !.L = get_num_layers(s) - 1])

\* a new point that takes the id of the last point stored
InsNewPointGetDatasize_Last(s, i) ==
  Run(s, [i EXCEPT !.pc = "set_point",
                   !.idx = IF get_datasize(s) > 0 THEN get_datasize(s) - 1 ELSE 0])

\* new_point, line 133 of db/index.ts: read the point count
InsNewPointGetDatasize(s, i) ==
  Run(s, [i EXCEPT !.pc = "set_point", !.idx = get_datasize(s)])

\* new_point, line 136: write the point record
InsNewPointSetPoint(s, i) ==
  Run(new_point_set_point(s, i.idx, i.q), [i EXCEPT !.pc = "set_points"])

\* new_point, line 137: write the point count; line 134: if (metadata)
InsNewPointSetPoints(s, i) ==
  Run(new_point_set_points(s, i.idx),
      [i EXCEPT !.pc = IF Truthy(i.metadata) THEN "set_metadata"
                       ELSE AfterMetadata(i.ep_index)])

\* line 135
InsSetMetadata(s, i) ==
  Run(set_metadata(s, i.idx, i.metadata), [i EXCEPT !.pc = AfterMetadata(i.ep_index)])

\* lines 140-158: PHASE 1, reads only
InsRoute(s, i) ==
  LET r == Route(s, i.q, i.ep_index[1], i.L, i.l)
      l_c == IF i.L < i.l THEN i.L ELSE i.l
  IN IF r.err THEN Throw(s, i)
     ELSE Run(s, [i EXCEPT !.pc = IF l_c >= 0 THEN "link" ELSE "get_LL",
                           !.ep = r.ep, !.l_c = l_c])

\* lines 160-204: the reads and the computation of one layer
InsLink(s, i) ==
  LET r == Link(s, i.q, i.idx, i.ep, i.l_c)
  IN IF r.err THEN Throw(s, i)
     ELSE Run(s, [i EXCEPT !.pc = "upsert_neighbor", !.ep = r.ep,
                           !.newNode = r.newNode, !.nodes = r.nodes])

\* the new point's layer node left unwritten
InsUpsertNeighbor_NoWrite(s, i) == Run(s, [i EXCEPT !.pc = "upsert_neighbors"])

\* line 207
InsUpsertNeighbor(s, i) ==
  Run(upsert_neighbor(s, i.l_c, i.idx, i.newNode), [i EXCEPT !.pc = "upsert_neighbors"])

\* line 208, and the loop's step (line 158)
InsUpsertNeighbors(s, i) ==
  Run(upsert_neighbors(s, i.l_c, i.nodes),
      [i EXCEPT !.pc = IF i.l_c - 1 >= 0 THEN "link" ELSE "get_LL",
                !.l_c = i.l_c - 1, !.newNode = <<>>, !.nodes = <<>>])

\* the test for new layers off by one
InsGetLL_OffByOne(s, i) ==
  LET LL == get_num_layers(s)
  IN IF LL < i.l
     THEN Run(s, [i EXCEPT !.pc = "set_ep", !.LL = LL, !.i = LL])
     ELSE Ok(s, i)

\* line 213: read the layer count again; without new layers insert returns
InsGetLL(s, i) ==
  LET LL == get_num_layers(s)
  IN IF LL < i.l + 1
     THEN Run(s, [i EXCEPT !.pc = "set_ep", !.LL = LL, !.i = LL])
     ELSE Ok(s, i)

\* lines 214-217, and the head of the loop of line 221
InsSetEp(s, i) ==
  IF i.i < i.l + 1
  THEN Run(set_ep(s, i.idx), [i EXCEPT !.pc = "new_neighbor"])
  ELSE Ok(set_ep(s, i.idx), i)

\* new_neighbor, line 279 of db/index.ts
InsNewNeighborGetNumLayers(s, i) ==
  Run(s, [i EXCEPT !.pc = "new_neighbor_upsert", !.nl = get_num_layers(s)])

\* new_neighbor, line 280
InsNewNeighborUpsert(s, i) ==
  Run(upsert_neighbor(s, i.nl, i.idx, <<>>), [i EXCEPT !.pc = "new_neighbor_set_layers"])

\* the loop over the new layers left after its first round
InsNewNeighborSetLayers_Once(s, i) == Ok(set_layers(s, i.nl + 1), i)

\* new_neighbor, line 284, and the loop's step (line 221)
InsNewNeighborSetLayers(s, i) ==
  IF i.i + 1 < i.l + 1
  THEN Run(set_layers(s, i.nl + 1), [i EXCEPT !.pc = "new_neighbor", !.i = i.i + 1])
  ELSE Ok(set_layers(s, i.nl + 1), i)

\* the step insert takes at i.pc
InsStepOf(s, i) ==
  CASE i.pc = "get_ep" -> InsGetEp(s, i)
    [] i.pc = "get_num_layers" -> InsGetNumLayers(s, i)
    [] i.pc = "get_datasize" -> InsNewPointGetDatasize(s, i)
    [] i.pc = "set_point" -> InsNewPointSetPoint(s, i)
    [] i.pc = "set_points" -> InsNewPointSetPoints(s, i)
    [] i.pc = "set_metadata" -> InsSetMetadata(s, i)
    [] i.pc = "route" -> InsRoute(s, i)
    [] i.pc = "link" -> InsLink(s, i)
    [] i.pc = "upsert_neighbor" -> InsUpsertNeighbor(s, i)
    [] i.pc = "upsert_neighbors" -> InsUpsertNeighbors(s, i)
    [] i.pc = "get_LL" -> InsGetLL(s, i)
    [] i.pc = "set_ep" -> InsSetEp(s, i)
    [] i.pc = "new_neighbor" -> InsNewNeighborGetNumLayers(s, i)
    [] i.pc = "new_neighbor_upsert" -> InsNewNeighborUpsert(s, i)
    [] i.pc = "new_neighbor_set_layers" -> InsNewNeighborSetLayers(s, i)

\* the locals of insert(q, metadata) as it is called, drawing layer l
InsCalled(q, metadata, l) ==
  [InsIdle EXCEPT !.pc = "get_ep", !.q = q, !.metadata = metadata, !.l = l]

\* the whole call: its steps in turn, until it returns or throws
RECURSIVE InsRun(_)
InsRun(r) == IF r.ret = "run" THEN InsRun(InsStepOf(r.kv, r.ins)) ELSE r

insert(s, q, metadata, l) == InsRun(Run(s, InsCalled(q, metadata, l)))

Config == <<m, m_max0, ef_construction, ef>>

\* the calls of the other specifications, not in flight
Aux == <<bat, two, fun, svc, qta>>

\* what hist records of a call that ended with locals i
Ended(i, ret) ==
  [q |-> i.q, metadata |-> i.metadata, l |-> i.l, idx |-> i.idx, ok |-> (ret = "ok")]

(***************************************************************************)
(* insert as one action: a call with no other call in flight.              *)
(***************************************************************************)
Insert(q, metadata, l, maxPoints) ==
  /\ ins.pc = "idle"
  /\ srch.pc = "idle"
  /\ Len(hist) < maxPoints
  /\ \E r \in { insert(kv, q, metadata, l) } :
       /\ kv' = r.kv
       /\ hist' = Append(hist, Ended(r.ins, r.ret))
  /\ sres' = NoSearch
  /\ got' = NoGet
  /\ UNCHANGED <<Config, Aux, ins, srch>>

(***************************************************************************)
(* insert as a process: the call, then one action per step.                *)
(***************************************************************************)
InsCall(q, metadata, l, maxPoints) ==
  /\ ins.pc = "idle"
  /\ Len(hist) < maxPoints
  /\ ins' = InsCalled(q, metadata, l)
  /\ sres' = NoSearch
  /\ UNCHANGED <<kv, Config, Aux, srch, got, hist>>

InsStep ==
  /\ ins.pc # "idle"
  /\ \E r \in { InsStepOf(kv, ins) } :
       /\ kv' = r.kv
       /\ IF r.ret = "run"
          THEN ins' = r.ins /\ hist' = hist
          ELSE ins' = InsIdle /\ hist' = Append(hist, Ended(r.ins, r.ret))
  /\ UNCHANGED <<Config, Aux, srch, sres, got>>

\* the KV call the insert awaits is rejected by the backend (or the insert
\* is cancelled there): the call has no effect, insert catches nothing and
\* throws
InsBackendError ==
  /\ ins.pc # "idle"
  /\ hist' = Append(hist, Ended(ins, "throw"))
  /\ ins' = InsIdle
  /\ UNCHANGED <<kv, Config, Aux, srch, sres, got>>

(***************************************************************************)
(* Two insert calls on one index, p = 1, 2, each a process of its own: the *)
(* steps of one interleave with the steps of the other at every await.     *)
(***************************************************************************)
TwoInFlight == Cardinality({ p \in {1, 2} : two.loc[p].pc # "idle" })

TwoCall(p, q, metadata, l) ==
  /\ two.loc[p].pc = "idle"
  /\ Len(hist) + TwoInFlight < TwoMaxPoints
  /\ two' = [two EXCEPT !.loc[p] = InsCalled(q, metadata, l),
                         !.overlap = @ \/ two.loc[3 - p].pc # "idle"]
  /\ UNCHANGED <<kv, Config, bat, fun, svc, qta, ins, srch, sres, got, hist>>

TwoStep(p) ==
  /\ two.loc[p].pc # "idle"
  /\ \E r \in { InsStepOf(kv, two.loc[p]) } :
       /\ kv' = r.kv
       /\ IF r.ret = "run"
          THEN two' = [two EXCEPT !.loc[p] = r.ins] /\ hist' = hist
          ELSE /\ two' = [two EXCEPT !.loc[p] = InsIdle]
               /\ hist' = Append(hist, Ended(r.ins, r.ret))
  /\ UNCHANGED <<Config, bat, fun, svc, qta, ins, srch, sres, got>>

(***************************************************************************)
(* knn_search as one action, between inserts.                              *)
(***************************************************************************)
KnnSearch(q, K) ==
  /\ ins.pc = "idle"
  /\ srch.pc = "idle"
  /\ ~sres.called
  /\ LET r == knn_search(kv, q, K)
     IN sres' = [called |-> TRUE, q |-> q, K |-> K, err |-> r.err, out |-> r.out]
  /\ UNCHANGED <<kv, Config, Aux, ins, srch, got, hist>>

(***************************************************************************)
(* knn_search (lines 466-501) as a process of its own, one action per KV   *)
(* read, free to interleave with the steps of an insert in flight.         *)
(***************************************************************************)
\* the call returns out, or throws: it is recorded, the locals die
SrchReturns(out) ==
  /\ sres' = [called |-> TRUE, q |-> srch.q, K |-> srch.K, err |-> FALSE, out |-> out]
  /\ srch' = SrchIdle

SrchThrows ==
  /\ sres' = [called |-> TRUE, q |-> srch.q, K |-> srch.K, err |-> TRUE, out |-> <<>>]
  /\ srch' = SrchIdle

\* the ef of the search_layer call in progress (lines 481, 486)
SrchEf == IF srch.l_c > 0 THEN 1 ELSE ef

\* lines 468-471: knn_search(q, K) is called, and reads the entry point
SrchGetEp(q, K) ==
  /\ srch.pc = "idle"
  /\ ~sres.called
  /\ IF get_ep(kv) = Null
     THEN /\ sres' = [called |-> TRUE, q |-> q, K |-> K, err |-> FALSE, out |-> <<>>]
          /\ srch' = srch
     ELSE /\ srch' = [srch EXCEPT !.pc = "get_num_layers", !.q = q, !.K = K,
                                  !.ep_index = get_ep(kv)[1]]
          /\ sres' = sres
  /\ UNCHANGED <<kv, Config, Aux, ins, got, hist>>

\* a search that writes the layer count it read back to the store
SrchGetNumLayers_Caches ==
  /\ srch.pc = "get_num_layers"
  /\ srch' = [srch EXCEPT !.pc = "get_point", !.L = get_num_layers(kv) - 1]
  /\ kv' = set_layers(kv, get_num_layers(kv))
  /\ UNCHANGED <<Config, Aux, ins, sres, got, hist>>

\* line 474
SrchGetNumLayers ==
  /\ srch.pc = "get_num_layers"
  /\ srch' = [srch EXCEPT !.pc = "get_point", !.L = get_num_layers(kv) - 1]
  /\ UNCHANGED <<kv, Config, Aux, ins, sres, got, hist>>

\* lines 475-479: read the entry point's vector; the first search_layer
\* call begins at layer L, or at layer 0 when there is no layer above it
SrchGetPoint ==
  /\ srch.pc = "get_point"
  /\ IF ~has_point(kv, srch.ep_index) THEN SrchThrows
     ELSE LET ep == << <<cosine_distance(srch.q, get_point(kv, srch.ep_index)),
                         srch.ep_index>> >>
          IN /\ srch' = [srch EXCEPT !.pc = "search_layer", !.ep = ep,
                                     !.l_c = IF srch.L > 0 THEN srch.L ELSE 0,
                                     !.st = SLInit(ep)]
             /\ sres' = sres
  /\ UNCHANGED <<kv, Config, Aux, ins, got, hist>>

\* lines 481-490: a search_layer call has returned W
SrchLayerDone(W) ==
  IF srch.l_c > 0
  THEN /\ srch' = [srch EXCEPT !.ep = W, !.l_c = srch.l_c - 1, !.st = SLInit(W)]
       /\ sres' = sres
  ELSE LET ep_topk == Slice(SortNodes(W), srch.K)
       IN IF ep_topk = <<>> THEN SrchReturns(<<>>)
          ELSE /\ srch' = [srch EXCEPT !.pc = "get_metadatas", !.ep = W,
                                       !.topk = ep_topk, !.out = <<>>]
               /\ sres' = sres

\* search_layer, lines 270-290: the head of the loop and its get_neighbor
SrchSLGetNeighbor ==
  /\ srch.pc = "search_layer"
  /\ srch.st.st = "loop"
  /\ LET st == SLGetNeighbor(kv, srch.st, srch.l_c)
     IN IF st.st = "err" THEN SrchThrows
        ELSE IF st.st = "done" THEN SrchLayerDone(SLResult(st, SrchEf))
        ELSE /\ srch' = [srch EXCEPT !.st = st]
             /\ sres' = sres
  /\ UNCHANGED <<kv, Config, Aux, ins, got, hist>>

\* search_layer, lines 293-313: get_points and the rest of the iteration
SrchSLGetPoints ==
  /\ srch.pc = "search_layer"
  /\ srch.st.st = "points"
  /\ LET st == SLGetPoints(kv, srch.st, srch.q, SrchEf)
     IN IF st.st = "err" THEN SrchThrows
        ELSE /\ srch' = [srch EXCEPT !.st = st]
             /\ sres' = sres
  /\ UNCHANGED <<kv, Config, Aux, ins, got, hist>>

\* lines 493-500: get_metadatas reads the metadata of each result in turn
SrchGetMetadata ==
  /\ srch.pc = "get_metadatas"
  /\ LET e == srch.topk[Len(srch.out) + 1]
         out == Append(srch.out, [id |-> e[2], distance |-> e[1],
                                  metadata |-> get_metadata(kv, e[2])])
     IN IF Len(out) = Len(srch.topk) THEN SrchReturns(out)
        ELSE /\ srch' = [srch EXCEPT !.out = out]
             /\ sres' = sres
  /\ UNCHANGED <<kv, Config, Aux, ins, got, hist>>

\* the steps of a knn_search that has been called
SrchStep ==
  \/ SrchGetNumLayers
  \/ SrchGetPoint
  \/ SrchSLGetNeighbor
  \/ SrchSLGetPoints
  \/ SrchGetMetadata

\* the caller drops a knn_search in flight at one of its awaits: the locals
\* die, nothing is returned
SrchAbandon ==
  /\ srch.pc # "idle"
  /\ srch' = SrchIdle
  /\ UNCHANGED <<kv, Config, Aux, ins, sres, got, hist>>

(***************************************************************************)
(* get_vector (lines 71-78) as one step, between inserts.                  *)
(***************************************************************************)
get_vector(s, idx) ==
  IF ~has_point(s, idx)
  THEN [called |-> TRUE, idx |-> idx, err |-> TRUE, point |-> <<>>, metadata |-> Null]
  ELSE [called |-> TRUE, idx |-> idx, err |-> FALSE,
        point |-> get_point(s, idx), metadata |-> get_metadata(s, idx)]

GetVector(idx) ==
  /\ ins.pc = "idle"
  /\ ~got.called
  /\ got' = get_vector(kv, idx)
  /\ UNCHANGED <<kv, Config, Aux, ins, srch, sres, hist>>

(***************************************************************************)
(* safe_get_many and safe_set_many (db/index.ts 331-370).  Each call hands *)
(* its whole argument to the client as one batch; when the client rejects  *)
(* a batch the catch branch hands over its two halves, both at once        *)
(* (Promise.all), whatever the error was and however short the batch.  The *)
(* answers come in any order.  The call returns when no batch is           *)
(* outstanding; no branch of it throws.                                    *)
(***************************************************************************)
\* the limits of the backend: 0 for one that rejects as it pleases
BatLimits == { 0, 2, 3 }
\* arguments of get_neighbors: lists of the first id and an id never stored;
\* the adjacency upsert_neighbors writes for i
BatIdxs == UNION { [1 .. k -> {0, BatMaxPoints}] : k \in 0 .. BatMaxKeys }
BatNode(i, d) == (i + 1) :> d

\* client.getMany's answer for one key: its value, or null
BatStored(s, key) == IF key \in DOMAIN s.node THEN s.node[key] ELSE Null

\* a split whose second half begins one key too late
BatSplit_DropsOne(t) ==
  << [lo |-> t.lo, n |-> t.n \div 2],
     [lo |-> t.lo + (t.n \div 2) + 1, n |-> t.n - (t.n \div 2) - 1] >>

\* keys.slice(0, half) and keys.slice(half), half = keys.length >> 1
BatSplit(t) ==
  << [lo |-> t.lo, n |-> t.n \div 2],
     [lo |-> t.lo + (t.n \div 2), n |-> t.n - (t.n \div 2)] >>

\* results gathered in the order the batches are answered
BatGetMany_Arrival(s, b, t) ==
  [i \in 1 .. (Cardinality(DOMAIN b.out) + t.n) |->
     IF i <= Cardinality(DOMAIN b.out) THEN b.out[i]
     ELSE BatStored(s, b.keys[t.lo + i - Cardinality(DOMAIN b.out)])]

\* the results of an accepted getMany batch t, at their place in the
\* flattened result
BatGetMany(s, b, t) ==
  [i \in DOMAIN b.out \cup (t.lo + 1 .. t.lo + t.n) |->
     IF i \in t.lo + 1 .. t.lo + t.n THEN BatStored(s, b.keys[i]) ELSE b.out[i]]

\* the store after an accepted setMany batch t: every key of the batch set,
\* the last entry winning
BatSetMany(s, b, t) ==
  [s EXCEPT !.node =
     [k \in { b.keys[i] : i \in t.lo + 1 .. t.lo + t.n } |->
        b.vals[CHOOSE i \in t.lo + 1 .. t.lo + t.n :
                 /\ b.keys[i] = k
                 /\ \A j \in i + 1 .. t.lo + t.n : b.keys[j] # k]]
       @@ s.node]

\* the call: the whole argument is the first batch
BatCall(op, keys, vals, N) ==
  /\ bat.pc = "idle"
  /\ ins.pc = "idle"
  /\ srch.pc = "idle"
  /\ bat' = [pc |-> "run", op |-> op, keys |-> keys, vals |-> vals,
             pend |-> << [lo |-> 0, n |-> Len(keys)] >>, out |-> <<>>,
             N |-> N, rejects |-> 0]
  /\ UNCHANGED <<kv, Config, two, fun, svc, qta, ins, srch, sres, got, hist>>

\* get_neighbors (line 193): the keys of idxs at layer
BatGetNeighbors(layer, idxs, N) ==
  BatCall("get", [i \in 1 .. Len(idxs) |-> <<layer, idxs[i]>>], <<>>, N)

\* upsert_neighbors (lines 255-267): an entry for every key of nodes
BatUpsertNeighbors(layer, nodes, N) ==
  BatCall("set",
          [i \in 1 .. Len(ObjectKeys(nodes)) |-> <<layer, ObjectKeys(nodes)[i]>>],
          [i \in 1 .. Len(ObjectKeys(nodes)) |->
             encodeLayerNode([idx |-> ObjectKeys(nodes)[i], level |-> layer,
                              neighbors |-> nodes[ObjectKeys(nodes)[i]]])],
          N)

\* the backend accepts the j-th outstanding batch
BatAccept(j) ==
  /\ bat.pc = "run"
  /\ j \in DOMAIN bat.pend
  /\ bat.N = 0 \/ bat.pend[j].n < bat.N
  /\ bat' = [bat EXCEPT
               !.pend = SubSeq(@, 1, j - 1) \o SubSeq(@, j + 1, Len(@)),
               !.out = IF bat.op = "get" THEN BatGetMany(kv, bat, bat.pend[j]) ELSE @,
               !.pc = IF Len(bat.pend) = 1 THEN "done" ELSE "run"]
  /\ kv' = IF bat.op = "set" THEN BatSetMany(kv, bat, bat.pend[j]) ELSE kv
  /\ UNCHANGED <<Config, two, fun, svc, qta, ins, srch, sres, got, hist>>

\* the backend rejects the j-th outstanding batch: the catch branch
BatReject(j) ==
  /\ bat.pc = "run"
  /\ j \in DOMAIN bat.pend
  /\ IF bat.N = 0 THEN bat.rejects < MaxRejects ELSE bat.pend[j].n >= bat.N
  /\ bat' = [bat EXCEPT
               !.pend = SubSeq(@, 1, j - 1) \o BatSplit(bat.pend[j])
                          \o SubSeq(@, j + 1, Len(@)),
               !.rejects = @ + 1]
  /\ UNCHANGED <<kv, Config, two, fun, svc, qta, ins, srch, sres, got, hist>>

\* the backend answers an outstanding batch
BatStep == \E j \in DOMAIN bat.pend : BatAccept(j) \/ BatReject(j)

Next ==
  \/ \E q \in Vecs, metadata \in Metas, l \in Layers : Insert(q, metadata, l, MaxPoints)
  \/ \E q \in Vecs, K \in Ks : KnnSearch(q, K)

Spec == Init /\ [][Next]_vars

\* more points, of fewer directions, each looked up again
NextDeep ==
  \/ \E q \in DeepVecs, metadata \in Metas, l \in Layers :
       Insert(q, metadata, l, DeepMaxPoints)
  \/ \E q \in DeepVecs : KnnSearch(q, 1)

SpecDeep == Init /\ [][NextDeep]_vars

\* the metadata arguments varied, get_vector read back
NextMeta ==
  \/ \E q \in MetaVecs, metadata \in AllMetas, l \in Layers :
       Insert(q, metadata, l, MetaMaxPoints)
  \/ \E idx \in 0 .. MetaMaxPoints : GetVector(idx)

SpecMeta == Init /\ [][NextMeta]_vars

\* a vector of another dimension among the inserted
NextDim ==
  \E q \in DimVecs, metadata \in Metas, l \in Layers : Insert(q, metadata, l, DimMaxPoints)

SpecDim == Init /\ [][NextDim]_vars

\* a knn_search racing the inserts
NextRace ==
  \/ \E q \in RaceVecs, metadata \in Metas, l \in Layers :
       InsCall(q, metadata, l, RaceMaxPoints)
  \/ InsStep
  \/ \E q \in RaceVecs, K \in RaceKs : SrchGetEp(q, K)
  \/ SrchStep

SpecRace == Init /\ [][NextRace]_vars

\* the same, with searches that are dropped half-way
NextCancel ==
  \/ NextRace
  \/ SrchAbandon

SpecCancel == Init /\ [][NextCancel]_vars

\* sequential inserts, every KV access of each a step of its own
NextSteps ==
  \/ \E q \in Vecs, metadata \in Metas, l \in Layers :
       InsCall(q, metadata, l, StepMaxPoints)
  \/ InsStep

SpecSteps == Init /\ [][NextSteps]_vars

\* sequential inserts that may stop at any KV call, and searches between
NextFail ==
  \/ \E q \in MetaVecs, metadata \in Metas, l \in Layers :
       InsCall(q, metadata, l, FailMaxPoints)
  \/ InsStep
  \/ InsBackendError
  \/ \E q \in MetaVecs : KnnSearch(q, 1)

SpecFail == Init /\ [][NextFail]_vars

\* two inserts, free to overlap
NextTwo ==
  \/ \E p \in {1, 2}, q \in MetaVecs, metadata \in Metas, l \in Layers :
       TwoCall(p, q, metadata, l)
  \/ \E p \in {1, 2} : TwoStep(p)

SpecTwo == Init /\ [][NextTwo]_vars

\* a batch call on a store some inserts filled; the backend answers every
\* batch handed to it
NextBatch ==
  \/ \E q \in MetaVecs, metadata \in Metas, l \in Layers :
       bat.pc = "idle" /\ Insert(q, metadata, l, BatMaxPoints)
  \/ \E layer \in Layers, idxs \in BatIdxs, N \in BatLimits :
       BatGetNeighbors(layer, idxs, N)
  \/ \E layer \in Layers, S \in SUBSET (0 .. BatMaxKeys - 1), d \in {0, Scale},
        N \in BatLimits :
       BatUpsertNeighbors(layer, [i \in S |-> BatNode(i, d)], N)
  \/ \E j \in DOMAIN bat.pend : BatAccept(j)
  \/ \E j \in DOMAIN bat.pend : BatReject(j)

SpecBatch == Init /\ [][NextBatch]_vars /\ WF_vars(BatStep)

(***************************************************************************)
(* EizenService.insertVector (EizenService.ts 369-406), two calls p = 1, 2 *)
(* on one contract, each a process of its own: it reads get_datasize for   *)
(* the id it will report, then awaits insert, whose steps interleave with  *)
(* the other call's at every await.                                        *)
(***************************************************************************)
SvcInsertVector(p, q, metadata, l) ==
  /\ svc[p].pc = "idle"
  /\ svc' = [svc EXCEPT ![p] = [@ EXCEPT !.pc = "get_datasize", !.q = q,
                                         !.metadata = metadata, !.l = l]]
  /\ UNCHANGED <<kv, Config, bat, two, fun, qta, ins, srch, sres, got, hist>>

\* line 380, then line 383 one KV call at a time; the call returns
\* success: true when insert returns and rethrows when it throws
SvcStep(p) ==
  \/ /\ svc[p].pc = "get_datasize"
     /\ svc' = [svc EXCEPT ![p] = [@ EXCEPT !.pc = "insert", !.vectorId = get_datasize(kv)]]
     /\ two' = [two EXCEPT !.loc[p] = InsCalled(svc[p].q, svc[p].metadata, svc[p].l)]
     /\ UNCHANGED <<kv, Config, bat, fun, qta, ins, srch, sres, got, hist>>
  \/ /\ svc[p].pc = "insert"
     /\ \E r \in { InsStepOf(kv, two.loc[p]) } :
          /\ kv' = r.kv
          /\ IF r.ret = "run"
             THEN two' = [two EXCEPT !.loc[p] = r.ins] /\ UNCHANGED <<svc, hist>>
             ELSE /\ two' = [two EXCEPT !.loc[p] = InsIdle]
                  /\ hist' = Append(hist, Ended(r.ins, r.ret))
                  /\ svc' = [svc EXCEPT ![p] = [@ EXCEPT !.pc = "done",
                                                         !.success = (r.ret = "ok")]]
     /\ UNCHANGED <<Config, bat, fun, qta, ins, srch, sres, got>>

NextSvc ==
  \/ \E p \in {1, 2}, q \in RaceVecs, metadata \in SvcMetas, l \in Layers :
       SvcInsertVector(p, q, metadata, l)
  \/ \E p \in {1, 2} : SvcStep(p)

SpecSvc == Init /\ [][NextSvc]_vars

(***************************************************************************)
(* POST /memories/insert for one user (part_002 59-132), each request a    *)
(* process of its own.  qta holds the user's subscriptions row (row: it    *)
(* exists), the number of memories created for the user, and per request   *)
(* its position, the quotaUsed that incrementQuotaUsage read and the       *)
(* status sent.  The database answers every query.                         *)
(***************************************************************************)
\* the row as the requests find it: none, or one within its limit whose
\* quotaUsed counts the memories created so far
InitQuota ==
  /\ kv = EmptyKv
  /\ m = CfgM
  /\ m_max0 = CfgM * 2
  /\ ef_construction = CfgEfConstruction
  /\ ef = CfgEfSearch
  /\ ins = InsIdle
  /\ srch = SrchIdle
  /\ sres = NoSearch
  /\ got = NoGet
  /\ hist = <<>>
  /\ bat = BatIdle
  /\ two = TwoIdle
  /\ fun = FunIdle
  /\ svc = SvcIdle
  /\ qta \in {QtaIdle} \cup
       { [QtaIdle EXCEPT !.row = TRUE, !.isActive = a, !.quotaLimit = r[1],
                         !.quotaUsed = r[2], !.created = r[2]] :
           a \in BOOLEAN,
           r \in { x \in (0 .. QuotaMaxLimit) \X (0 .. QuotaMaxLimit) : x[2] <= x[1] } }

\* lines 66-88: checkQuota (SubscriptionService.ts 24-69) reads the row;
\* 429 unless it exists, is active and quotaLimit - quotaUsed > 0
QtaCheckQuota(p) ==
  /\ qta.req[p].pc = "idle"
  /\ qta' = IF qta.row /\ qta.isActive /\ qta.quotaLimit - qta.quotaUsed > 0
            THEN [qta EXCEPT !.req[p].pc = "createMemory"]
            ELSE [qta EXCEPT !.req[p].pc = "done", !.req[p].status = 429]
  /\ UNCHANGED <<kv, Config, bat, two, fun, svc, ins, srch, sres, got, hist>>

\* line 104: createMemory stores the memory, or throws (500, lines 120-130)
QtaCreateMemory(p, ok) ==
  /\ qta.req[p].pc = "createMemory"
  /\ qta' = IF ok
            THEN [qta EXCEPT !.created = @ + 1, !.req[p].pc = "findFirst"]
            ELSE [qta EXCEPT !.req[p].pc = "done", !.req[p].status = 500]
  /\ UNCHANGED <<kv, Config, bat, two, fun, svc, ins, srch, sres, got, hist>>

\* line 107: incrementQuotaUsage (SubscriptionService.ts 77-121) reads the
\* row, then writes quotaUsed = the value read + 1; then 201 (lines 117-119)
QtaIncrementQuotaUsage(p) ==
  /\ \/ /\ qta.req[p].pc = "findFirst"
        /\ qta' = [qta EXCEPT !.req[p].pc = "update", !.req[p].quotaUsed = qta.quotaUsed]
     \/ /\ qta.req[p].pc = "update"
        /\ qta' = [qta EXCEPT !.quotaUsed = qta.req[p].quotaUsed + 1,
                              !.req[p].pc = "done", !.req[p].status = 201]
  /\ UNCHANGED <<kv, Config, bat, two, fun, svc, ins, srch, sres, got, hist>>

NextQuota ==
  \/ \E p \in 1 .. QuotaMaxReqs : QtaCheckQuota(p)
  \/ \E p \in 1 .. QuotaMaxReqs, ok \in BOOLEAN : QtaCreateMemory(p, ok)
  \/ \E p \in 1 .. QuotaMaxReqs : QtaIncrementQuotaUsage(p)

SpecQuota == InitQuota /\ [][NextQuota]_vars

(***************************************************************************)
(* search_layer and select_neighbors called on their own.  The store is    *)
(* drawn: FunMaxNodes points of the vectors Vecs, a layer node at layer 0  *)
(* for every point with any neighbours but itself, and at layer 1 the same *)
(* graph restricted to all points but the last.                            *)
(***************************************************************************)
FunStores ==
  LET ids == 0 .. FunMaxNodes - 1
      upper == 0 .. FunMaxNodes - 2
      node(vs, adj, S) ==
        [i \in S |-> [j \in adj[i] \cap S |-> cosine_distance(vs[i], vs[j])]]
      store(vs, adj) ==
        upsert_neighbors(
          upsert_neighbors(
            [EmptyKv EXCEPT !.ep = NumToString(0),
                            !.layers = NumToString(2),
                            !.points = NumToString(FunMaxNodes),
                            !.point = [i \in ids |-> encodePoint([v |-> vs[i], idx |-> i])]],
            0, node(vs, adj, ids)),
          1, node(vs, adj, upper))
  IN { store(vs, adj) :
         vs \in [ids -> Vecs],
         adj \in { a \in [ids -> SUBSET ids] : \A i \in ids : i \notin a[i] } }

InitFun ==
  /\ kv \in FunStores
  /\ m = CfgM
  /\ m_max0 = CfgM * 2
  /\ ef_construction = CfgEfConstruction
  /\ ef = CfgEfSearch
  /\ ins = InsIdle
  /\ srch = SrchIdle
  /\ sres = NoSearch
  /\ got = NoGet
  /\ hist = <<>>
  /\ bat = BatIdle
  /\ two = TwoIdle
  /\ fun = FunIdle
  /\ svc = SvcIdle
  /\ qta = QtaIdle

\* the Node[] arguments: the points of ids in any order, each with its
\* distance to q
FunNodes(q, S) ==
  { [i \in 1 .. Len(sq) |-> <<cosine_distance(get_point(kv, sq[i]), q), sq[i]>>] :
      sq \in { f \in UNION { [1 .. n -> S] : n \in 0 .. Cardinality(S) } :
                 \A a, b \in DOMAIN f : a # b => f[a] # f[b] } }

\* search_layer(q, ep, ef, l_c)
FunSearchLayer(q, ep, efv, l_c) ==
  /\ fun.fn = "none"
  /\ fun' = LET st == SLRun(kv, SLInit(ep), q, efv, l_c)
            IN [FunIdle EXCEPT !.fn = "search_layer", !.q = q, !.ep = ep,
                               !.efv = efv, !.l_c = l_c,
                               !.err = (st.st = "err"), !.V = st.V,
                               !.out = search_layer(kv, q, ep, efv, l_c).W]
  /\ UNCHANGED <<kv, Config, bat, two, svc, qta, ins, srch, sres, got, hist>>

\* select_neighbors(q, C, l_c), keepPrunedConnections defaulted to true
FunSelectNeighbors(q, C, l_c) ==
  /\ fun.fn = "none"
  /\ fun' = [FunIdle EXCEPT !.fn = "select_neighbors", !.q = q, !.C = C, !.l_c = l_c,
                            !.out = select_neighbors(q, C, l_c, TRUE)]
  /\ UNCHANGED <<kv, Config, bat, two, svc, qta, ins, srch, sres, got, hist>>

NextFun ==
  \/ /\ fun.fn = "none"
     /\ \E q \in MetaVecs, l_c \in Layers :
          \E ep \in FunNodes(q, { i \in DOMAIN kv.point : has_neighbor(kv, l_c, i) }),
             efv \in 1 .. FunMaxNodes :
            FunSearchLayer(q, ep, efv, l_c)
  \/ /\ fun.fn = "none"
     /\ \E q \in MetaVecs, l_c \in Layers :
          \E C \in FunNodes(q, DOMAIN kv.point) : FunSelectNeighbors(q, C, l_c)

SpecFun == InitFun /\ [][NextFun]_vars

(***************************************************************************)
(* What the claims speak of.                                               *)
(***************************************************************************)
\* no insert is in flight: every insert called has completed
Quiescent == ins.pc = "idle"

\* the ids with a point record, the layers at which id has a layer node
PointIds == DOMAIN kv.point
LayersOf(id) == { k[1] : k \in { kk \in DOMAIN kv.node : kk[2] = id } }
\* the stored adjacency of id at layer
Adj(layer, id) == get_neighbor(kv, layer, id)
Degree(layer, id) == Cardinality(DOMAIN Adj(layer, id))

(***************************************************************************)
(* C1  Degree bound: after completed sequential inserts every layer node   *)
(* at layer 0 has at most 2*M neighbours, every layer node at a layer > 0  *)
(* at most M.                                                              *)
(***************************************************************************)
C1_DegreeBound ==
  Quiescent =>
    \A k \in DOMAIN kv.node :
      Degree(k[1], k[2]) <= IF k[1] = 0 THEN 2 * m ELSE m

\* a full node that has been pruned: at layer 0 and at a higher layer some
\* node j with the maximal degree has dropped the edge back to a node i that
\* still lists j
PrunedAt(layer) ==
  \E k \in DOMAIN kv.node :
    /\ k[1] = layer
    /\ Degree(layer, k[2]) = (IF layer = 0 THEN 2 * m ELSE m)
    /\ \E i \in PointIds :
         /\ has_neighbor(kv, layer, i)
         /\ k[2] \in DOMAIN Adj(layer, i)
         /\ i \notin DOMAIN Adj(layer, k[2])

C1_Witness == Quiescent /\ PrunedAt(0) /\ PrunedAt(1)

(***************************************************************************)
(* C2  Self-retrieval: after completed sequential inserts, knn_search(v,   *)
(* 1) returns a list whose first element has the id assigned to the        *)
(* insert that passed v.  Stated for the vectors passed by one insert      *)
(* only, where "that id" names one point; the claim says this and more.    *)
(***************************************************************************)
InsertsOf(v) == { i \in 1 .. Len(hist) : hist[i].q = v }

C2_SelfRetrieval ==
  (sres.called /\ sres.K = 1) =>
    \A i \in InsertsOf(sres.q) :
      InsertsOf(sres.q) = {i} =>
        /\ ~sres.err
        /\ Len(sres.out) >= 1
        /\ sres.out[1].id = hist[i].idx

(***************************************************************************)
(* C3  Id contiguity: after n completed sequential inserts num_points is   *)
(* n, the i-th insert was assigned id i-1, and exactly the ids 0..n-1 have *)
(* a point record.                                                         *)
(***************************************************************************)
C3_IdContiguity ==
  Quiescent =>
    /\ get_datasize(kv) = Len(hist)
    /\ \A i \in 1 .. Len(hist) : hist[i].ok /\ hist[i].idx = i - 1
    /\ PointIds = 0 .. (Len(hist) - 1)

C3_Witness == Quiescent /\ Len(hist) >= 3 /\ get_datasize(kv) = Len(hist)

(***************************************************************************)
(* C4  Layer contiguity: after completed sequential inserts a point whose  *)
(* insert drew layer l has a layer node at exactly the layers 0..l.        *)
(***************************************************************************)
C4_LayerContiguity ==
  Quiescent =>
    \A i \in 1 .. Len(hist) : LayersOf(hist[i].idx) = 0 .. hist[i].l

\* a point drawn above the top layer (new layers made for it) and a later
\* point drawn below the top layer
C4_Witness ==
  /\ Quiescent
  /\ \E i, j \in 1 .. Len(hist) :
       /\ 1 < i /\ i < j
       /\ hist[i].l = 1 /\ \A h \in 1 .. (i - 1) : hist[h].l = 0
       /\ hist[j].l = 0
       /\ LayersOf(hist[i].idx) = {0, 1}
       /\ LayersOf(hist[j].idx) = {0}

(***************************************************************************)
(* C5  Entry-point dominance: after every completed insert the entry point *)
(* is set and has a layer node at every layer 0..num_layers-1 and at no    *)
(* higher layer.                                                           *)
(***************************************************************************)
C5_EntryPointDominance ==
  (Quiescent /\ Len(hist) >= 1) =>
    /\ get_ep(kv) # Null
    /\ get_ep(kv)[1] \in PointIds
    /\ LayersOf(get_ep(kv)[1]) = 0 .. (get_num_layers(kv) - 1)
    /\ get_num_layers(kv) >= 1

\* the entry point has moved to a later point, which made a new layer
C5_Witness ==
  /\ Quiescent
  /\ get_ep(kv) # Null
  /\ get_ep(kv)[1] > 0
  /\ get_num_layers(kv) = 2
  /\ Len(hist) > get_ep(kv)[1] + 1

(***************************************************************************)
(* C6  Metadata fidelity: for every id assigned by a completed insert(v,   *)
(* meta), get_vector(id) returns v and exactly the metadata passed, null   *)
(* when none was passed; later inserts change neither.                     *)
(***************************************************************************)
C6_MetadataFidelity ==
  got.called =>
    \A i \in 1 .. Len(hist) :
      hist[i].idx = got.idx =>
        /\ ~got.err
        /\ got.point = hist[i].q
        /\ got.metadata = hist[i].metadata

(***************************************************************************)
(* C7  Dimension guard: an insert whose vector length differs from the     *)
(* dimension of the points already in the index is rejected before any KV  *)
(* write: no point of another length is ever stored, and no such insert    *)
(* completes.                                                              *)
(***************************************************************************)
C7_DimensionGuard ==
  /\ \A a, b \in PointIds : Len(get_point(kv, a)) = Len(get_point(kv, b))
  /\ \A i \in 2 .. Len(hist) : Len(hist[i].q) # Len(hist[1].q) => ~hist[i].ok

(***************************************************************************)
(* C8  For an index holding n >= 1 points after completed sequential       *)
(* inserts and k > n, knn_search(q, k) returns exactly n results, in       *)
(* ascending distance order, with no id repeated.                          *)
(***************************************************************************)
C8_AllPointsReturned ==
  (sres.called /\ Len(hist) >= 1 /\ sres.K > Len(hist)) =>
    /\ ~sres.err
    /\ Len(sres.out) = Len(hist)
    /\ \A i, j \in 1 .. Len(sres.out) :
         i < j => /\ sres.out[i].distance <= sres.out[j].distance
                  /\ sres.out[i].id # sres.out[j].id

(***************************************************************************)
(* C9  A knn_search(q, k) call with k greater than the configured          *)
(* ef_search is rejected (InvalidConfig) instead of returning a list;      *)
(* stated for the calls on an index that holds a point.                    *)
(***************************************************************************)
C9_InvalidConfig == (sres.called /\ Len(hist) >= 1 /\ sres.K > ef) => sres.err

(***************************************************************************)
(* C10  A knn_search that interleaves, KV call by KV call, with an insert  *)
(* in flight yields a valid result: it does not fail with a missing point  *)
(* or layer node, and every id it returns is the id of a point already     *)
(* written, paired with that point's stored metadata.                      *)
(***************************************************************************)
C10_RacingSearchValid ==
  sres.called =>
    /\ ~sres.err
    /\ \A i \in 1 .. Len(sres.out) :
         /\ sres.out[i].id \in PointIds
         /\ sres.out[i].metadata = get_metadata(kv, sres.out[i].id)

(***************************************************************************)
(* C11  Write order: within one insert the KV writes come in the order     *)
(* point record and points counter, then metadata, then per layer the new  *)
(* node's adjacency followed by the neighbours' adjacencies, then the new  *)
(* empty layer nodes with the layers counter, and only last the entry      *)
(* point.  WritePhase ranks each position of the insert by the group of    *)
(* writes it belongs to (reads rank with the writes they prepare); the     *)
(* order holds when no step of an insert in flight moves to a lower rank   *)
(* and the new node's adjacency write is followed by the neighbours'.      *)
(***************************************************************************)
WritePhase(pc) ==
  CASE pc \in { "get_ep", "get_num_layers", "get_datasize" } -> 0
    [] pc \in { "set_point", "set_points" } -> 1
    [] pc = "set_metadata" -> 2
    [] pc \in { "route", "link", "upsert_neighbor", "upsert_neighbors", "get_LL" } -> 3
    [] pc \in { "new_neighbor", "new_neighbor_upsert", "new_neighbor_set_layers" } -> 4
    [] pc = "set_ep" -> 5

C11_WriteOrder ==
  [][ (ins.pc # "idle" /\ ins'.pc # "idle")
        => /\ WritePhase(ins'.pc) >= WritePhase(ins.pc)
           /\ (ins.pc = "upsert_neighbor" => ins'.pc = "upsert_neighbors") ]_vars

(***************************************************************************)
(* C12  Splitting ends at single-key granularity: when the backend rejects *)
(* a batch that holds one key, the call of safe_get_many or safe_set_many  *)
(* ends there and then, the failure handed to its caller, and no further   *)
(* batch is handed to the client.                                          *)
(***************************************************************************)
C12_SingleKeyFailurePropagates ==
  [][ (\E j \in DOMAIN bat.pend : bat.pend[j].n = 1 /\ BatReject(j))
        => (bat'.pc = "failed" /\ bat'.pend = <<>>) ]_vars

(***************************************************************************)
(* C13  With a backend that rejects every batch of N or more keys and      *)
(* accepts every smaller one (N >= 2), every call of safe_set_many         *)
(* eventually completes, and when it has completed every entry's key holds *)
(* the value given for it: the store is as after one accepted batch, so    *)
(* the upsert_neighbors of an insert completes with the effect the insert  *)
(* relies on.                                                              *)
(***************************************************************************)
AllEntriesHeld ==
  /\ bat.op = "set"
  /\ \A i \in DOMAIN bat.keys :
       bat.keys[i] \in DOMAIN kv.node /\ kv.node[bat.keys[i]] = bat.vals[i]

C13_LimitedBackendCompletes ==
  (bat.pc = "run" /\ bat.op = "set" /\ bat.N >= 2)
    ~> (bat.pc = "done" /\ AllEntriesHeld)

C13_Witness ==
  /\ bat.pc = "done" /\ bat.N = 2
  /\ Len(bat.keys) = 3 /\ bat.rejects = 2
  /\ AllEntriesHeld

(***************************************************************************)
(* C14  Whatever batches the backend rejected, a completed safe_get_many   *)
(* returns a list as long as its keys whose i-th element is the value      *)
(* stored under the i-th key, or null when that key is absent.             *)
(***************************************************************************)
C14_GetManyOrderAndLength ==
  (bat.pc = "done" /\ bat.op = "get")
    => /\ DOMAIN bat.out = 1 .. Len(bat.keys)
       /\ \A i \in 1 .. Len(bat.keys) :
            IF bat.keys[i] \in DOMAIN kv.node
            THEN bat.out[i] = kv.node[bat.keys[i]]
            ELSE bat.out[i] = Null

C14_Witness ==
  /\ bat.pc = "done" /\ bat.op = "get"
  /\ bat.rejects >= 2
  /\ Len(bat.keys) = 3
  /\ bat.keys[1] \notin DOMAIN kv.node
  /\ bat.keys[2] \in DOMAIN kv.node
  /\ bat.out[1] = Null
  /\ bat.out[2] = kv.node[bat.keys[2]]

(***************************************************************************)
(* C15  A search writes nothing: no step of knn_search or search_layer     *)
(* changes the store (points, points counter, layers counter, entry point, *)
(* layer nodes, metadata), whether the search goes on, returns, fails on a *)
(* missing key or is dropped at an await.                                  *)
(***************************************************************************)
C15_SearchWritesNothing ==
  [][ (srch' # srch \/ (sres'.called /\ ~sres.called)) => kv' = kv ]_vars

C15_Witness ==
  /\ sres.called /\ sres.err
  /\ ins.pc # "idle"
  /\ kv # EmptyKv

(***************************************************************************)
(* C16  Edge distance fidelity: after completed sequential inserts, those  *)
(* that prune neighbours included, every entry j -> d in the adjacency of  *)
(* a point i at any layer names a stored point j and has                   *)
(* d = cosine_distance(point[i], point[j]).                                *)
(***************************************************************************)
C16_EdgeDistanceFidelity ==
  Quiescent =>
    \A k \in DOMAIN kv.node :
      \A j \in DOMAIN Adj(k[1], k[2]) :
        /\ has_point(kv, k[2])
        /\ has_point(kv, j)
        /\ Adj(k[1], k[2])[j] = cosine_distance(get_point(kv, k[2]), get_point(kv, j))

\* a pruned node, and edges of three different lengths
C16_Witness ==
  /\ Quiescent
  /\ PrunedAt(1)
  /\ \E k \in DOMAIN kv.node : \E j \in DOMAIN Adj(k[1], k[2]) :
       Adj(k[1], k[2])[j] > 0 /\ Adj(k[1], k[2])[j] < Scale
  /\ \E k \in DOMAIN kv.node : \E j \in DOMAIN Adj(k[1], k[2]) :
       Adj(k[1], k[2])[j] = Scale
  /\ \E k \in DOMAIN kv.node : \E j \in DOMAIN Adj(k[1], k[2]) :
       Adj(k[1], k[2])[j] = 0

(***************************************************************************)
(* C17  Growth: a completed insert that drew layer l with l + 1 above the  *)
(* layer count (the first insert included) leaves the layer count at l + 1 *)
(* and the entry point at the new point's id; one with l + 1 at most the   *)
(* layer count leaves both as they were.                                   *)
(***************************************************************************)
C17_Growth ==
  [][ (Len(hist') = Len(hist) + 1 /\ hist'[Len(hist')].ok)
        => IF hist'[Len(hist')].l + 1 > get_num_layers(kv)
           THEN /\ get_num_layers(kv') = hist'[Len(hist')].l + 1
                /\ get_ep(kv') = <<hist'[Len(hist')].idx>>
           ELSE /\ get_num_layers(kv') = get_num_layers(kv)
                /\ get_ep(kv') = get_ep(kv) ]_vars

\* a first insert, one that grew a populated index, and one that did not
C17_Witness ==
  /\ Quiescent
  /\ Len(hist) >= 3
  /\ hist[1].ok /\ hist[2].ok /\ hist[3].ok
  /\ hist[1].l = 0 /\ hist[2].l = 1 /\ hist[3].l = 0
  /\ get_num_layers(kv) = 2
  /\ get_ep(kv) = <<hist[2].idx>>

(***************************************************************************)
(* C18  Across every single KV write of a run of sequential inserts the    *)
(* point count and the layer count never decrease, and a point record once *)
(* written is neither overwritten nor removed.                             *)
(***************************************************************************)
C18_MonotoneStore ==
  [][ /\ get_datasize(kv') >= get_datasize(kv)
      /\ get_num_layers(kv') >= get_num_layers(kv)
      /\ \A id \in DOMAIN kv.point :
           id \in DOMAIN kv'.point /\ kv'.point[id] = kv.point[id] ]_vars

\* the third point record is written, the counters still count two points
\* and two layers
C18_Witness ==
  /\ ins.pc = "set_points"
  /\ ins.idx = 2
  /\ DOMAIN kv.point = {0, 1, 2}
  /\ get_datasize(kv) = 2
  /\ get_num_layers(kv) = 2

(***************************************************************************)
(* C19  When two inserts overlap, the read-then-write of the layer count   *)
(* in new_neighbor races: there is an interleaving after which, both       *)
(* inserts having returned, the layer count is corrupt (not one more than  *)
(* the highest layer holding a layer node, or the entry point has no layer *)
(* node at the top layer).  The corrupt states are reached (C19_Witness),  *)
(* and only by overlap: while no insert was called with another in flight  *)
(* the layer count is sound whenever no insert is in flight.               *)
(***************************************************************************)
TopLayer == CHOOSE t \in { k[1] : k \in DOMAIN kv.node } :
              \A k \in DOMAIN kv.node : k[1] <= t

LayerCountCorrupt ==
  \/ get_num_layers(kv) # (IF DOMAIN kv.node = {} THEN 0 ELSE TopLayer + 1)
  \/ /\ get_ep(kv) # Null
     /\ ~has_neighbor(kv, get_num_layers(kv) - 1, get_ep(kv)[1])

C19_CorruptOnlyByOverlap ==
  (TwoInFlight = 0 /\ LayerCountCorrupt) => two.overlap

\* both inserts returned normally, and the layer count is corrupt
C19_Witness ==
  /\ TwoInFlight = 0
  /\ Len(hist) = 2 /\ hist[1].ok /\ hist[2].ok
  /\ two.overlap
  /\ LayerCountCorrupt

(***************************************************************************)
(* C20  Empty index: as long as no insert has been started, the point      *)
(* count is 0, there is no entry point, and knn_search(q, K) returns the   *)
(* empty list for every q and K.                                           *)
(***************************************************************************)
C20_EmptyIndex ==
  (Len(hist) = 0 /\ ins.pc = "idle")
    => /\ get_datasize(kv) = 0
       /\ get_ep(kv) = Null
       /\ sres.called => (~sres.err /\ sres.out = <<>>)

\* a search of the empty index, for more neighbours than ef
C20_Witness ==
  /\ Len(hist) = 0 /\ ins.pc = "idle"
  /\ sres.called
  /\ sres.K > ef

(***************************************************************************)
(* C21  A backend read that fails before the insert's first write (the     *)
(* entry-point read, the layer-count read, the point-count read of         *)
(* new_point) aborts the insert with no key written: from the call on, the *)
(* insert goes through these three reads in turn, and no step taken at one *)
(* of them, the read itself or its failure, changes the store.             *)
(***************************************************************************)
C21_ReadFailureWritesNothing ==
  [][ /\ (ins.pc = "idle" /\ ins'.pc # "idle") => (ins'.pc = "get_ep" /\ kv' = kv)
      /\ ins.pc = "get_ep" => (kv' = kv /\ ins'.pc \in {"idle", "get_num_layers"})
      /\ ins.pc = "get_num_layers" => (kv' = kv /\ ins'.pc \in {"idle", "get_datasize"})
      /\ ins.pc = "get_datasize" => (kv' = kv /\ ins'.pc \in {"idle", "set_point"}) ]_vars

\* the second insert failed at one of the three reads: one point is stored,
\* and the store is the one the first insert left
C21_Witness ==
  /\ ins.pc = "idle"
  /\ Len(hist) = 2 /\ hist[1].ok /\ ~hist[2].ok
  /\ DOMAIN kv.point = {0}
  /\ get_datasize(kv) = 1
  /\ DOMAIN kv.meta = {0}

(***************************************************************************)
(* C23  An insert that stops after any one of its KV writes leaves a       *)
(* usable index: a knn_search run on the state left behind completes       *)
(* without a missing-point or missing-layer-node error (the only errors a  *)
(* search for one neighbour can end with here).                            *)
(***************************************************************************)
C23_AbortLeavesUsable ==
  (ins.pc = "idle" /\ sres.called) => ~sres.err

(***************************************************************************)
(* C28  Referential integrity: after completed sequential inserts every    *)
(* neighbour id j stored in the layer node of point i at layer L is not i, *)
(* is below the point count, has a point record and has a layer node at    *)
(* layer L.                                                                *)
(***************************************************************************)
C28_ReferentialIntegrity ==
  Quiescent =>
    \A k \in DOMAIN kv.node :
      \A j \in DOMAIN Adj(k[1], k[2]) :
        /\ j # k[2]
        /\ j < get_datasize(kv)
        /\ has_point(kv, j)
        /\ has_neighbor(kv, k[1], j)

\* a store of several points with edges at layer 0 and at layer 1
C28_Witness ==
  /\ Quiescent
  /\ get_datasize(kv) >= 3
  /\ \E k \in DOMAIN kv.node : k[1] = 1 /\ DOMAIN Adj(1, k[2]) # {}
  /\ \E k \in DOMAIN kv.node : k[1] = 0 /\ Degree(0, k[2]) >= 2

(***************************************************************************)
(* C29  Edges are lost only by pruning a full node: after completed        *)
(* sequential inserts, for every edge i -> j stored at layer L whose       *)
(* reverse edge j -> i is not stored, j has exactly M_max(L) neighbours at *)
(* layer L.                                                                *)
(***************************************************************************)
C29_AsymmetryOnlyAtFullNodes ==
  Quiescent =>
    \A k \in DOMAIN kv.node :
      \A j \in DOMAIN Adj(k[1], k[2]) :
        (has_neighbor(kv, k[1], j) /\ k[2] \notin DOMAIN Adj(k[1], j))
          => Degree(k[1], j) = M_max(k[1])

\* one-directional edges exist at layer 0 and at layer 1
C29_Witness ==
  /\ Quiescent
  /\ \A layer \in Layers :
       \E k \in DOMAIN kv.node :
         /\ k[1] = layer
         /\ \E j \in DOMAIN Adj(layer, k[2]) :
              has_neighbor(kv, layer, j) /\ k[2] \notin DOMAIN Adj(layer, j)

\* the elements of a list of nodes
Elems(nodes) == { nodes[i] : i \in 1 .. Len(nodes) }
DistinctIds(nodes) == Cardinality(NodeIds(nodes)) = Len(nodes)
MinOf(a, b) == IF a <= b THEN a ELSE b

(***************************************************************************)
(* C24  select_neighbors(q, C, layer) with keepPrunedConnections = true,   *)
(* for a candidate list C of distinct ids: it returns exactly              *)
(* min(|C|, M_max(layer)) candidates, each with its input distance, and no *)
(* candidate left out is strictly closer than a candidate returned.        *)
(* Distances are those of vectors of one dimension (no NaN).               *)
(***************************************************************************)
C24_SelectKeepsClosest ==
  fun.fn = "select_neighbors" =>
    /\ Len(fun.out) = MinOf(Len(fun.C), M_max(fun.l_c))
    /\ DistinctIds(fun.out)
    /\ Elems(fun.out) \subseteq Elems(fun.C)
    /\ \A c \in Elems(fun.C) \ Elems(fun.out), r \in Elems(fun.out) : ~Lt(c[1], r[1])

\* more candidates than M_max, passed furthest first, two of them at the
\* same distance
C24_Witness ==
  /\ fun.fn = "select_neighbors"
  /\ Len(fun.C) > M_max(fun.l_c)
  /\ Gt(fun.C[1][1], fun.C[Len(fun.C)][1])
  /\ \E a, b \in DOMAIN fun.C : a # b /\ fun.C[a][1] = fun.C[b][1]
  /\ Len(fun.out) = M_max(fun.l_c)

\* the nodes a search_layer call visited, each with its distance to q
Visited == { <<cosine_distance(get_point(kv, i), fun.q), i>> : i \in fun.V }
\* the ids with a layer node at the layer of the call
LayerIds == { i \in DOMAIN kv.point : has_neighbor(kv, fun.l_c, i) }

\* the entries returned are the min(ef, number visited) closest visited nodes
ClosestVisited ==
  /\ Len(fun.out) = MinOf(fun.efv, Cardinality(fun.V))
  /\ DistinctIds(fun.out)
  /\ Elems(fun.out) \subseteq Visited
  /\ \A v \in Visited \ Elems(fun.out), r \in Elems(fun.out) : ~Lt(v[1], r[1])

\* Algorithm 2 of the paper on the same store: as search_layer, but the
\* furthest element of W is read again for each neighbour
RECURSIVE Alg2ForEach(_, _, _, _, _)
Alg2ForEach(s, st, ns, q, efv) ==
  IF ns = <<>> THEN st
  ELSE Alg2ForEach(s,
         SLForEach(s, [st EXCEPT !.f_dist = Neg(HeapTop(st.W)[1])], <<Head(ns)>>, q, efv),
         Tail(ns), q, efv)

RECURSIVE Alg2Run(_, _, _, _, _)
Alg2Run(s, st, q, efv, l_c) ==
  IF st.st = "loop" THEN Alg2Run(s, SLGetNeighbor(s, st, l_c), q, efv, l_c)
  ELSE IF st.st = "points"
  THEN Alg2Run(s, [Alg2ForEach(s, st, st.ns, q, efv)
                     EXCEPT !.st = "loop", !.ns = <<>>, !.f_dist = 0], q, efv, l_c)
  ELSE st

Algorithm2 == SLResult(Alg2Run(kv, SLInit(fun.ep), fun.q, fun.efv, fun.l_c), fun.efv)

(***************************************************************************)
(* C25  search_layer implements Algorithm 2 of the paper, in which the     *)
(* furthest element of the result list is read again for each neighbour    *)
(* examined: for every layer graph, entry points and ef it returns what    *)
(* Algorithm 2 returns, and the entries returned are the min(ef, number    *)
(* visited) closest to q among all nodes visited, entry points included.   *)
(* Stated for the calls insert and knn_search make: at most ef entry       *)
(* points.                                                                 *)
(***************************************************************************)
C25_ImplementsAlgorithm2 ==
  (fun.fn = "search_layer" /\ Len(fun.ep) <= fun.efv) =>
    /\ Elems(fun.out) = Elems(Algorithm2)
    /\ ClosestVisited

(***************************************************************************)
(* C26  search_layer called with at most ef entry points returns at most   *)
(* ef entries of pairwise distinct ids, all of them nodes of the layer;    *)
(* called with ef = 1 and a non-empty ep it returns exactly one entry, the *)
(* closest to q among all nodes it visited.                                *)
(***************************************************************************)
C26_BoundedDistinctResult ==
  (fun.fn = "search_layer" /\ Len(fun.ep) <= fun.efv) =>
    /\ Len(fun.out) <= fun.efv
    /\ DistinctIds(fun.out)
    /\ NodeIds(fun.out) \subseteq LayerIds
    /\ (fun.efv = 1 /\ fun.ep # <<>>) =>
         /\ Len(fun.out) = 1
         /\ fun.out[1] \in Visited
         /\ \A v \in Visited : ~Lt(v[1], fun.out[1][1])

\* ef = 1 at layer 1: the entry returned is not the entry point
C26_Witness ==
  /\ fun.fn = "search_layer"
  /\ fun.efv = 1
  /\ fun.l_c = 1
  /\ Len(fun.ep) = 1
  /\ Len(fun.out) = 1
  /\ fun.out[1][2] # fun.ep[1][2]
  /\ LayerIds # DOMAIN kv.point

\* the run of a search_layer call: the passes of the main loop, the pushes
\* to the candidate heap and the ids pushed
RECURSIVE SLLog(_, _, _, _, _, _)
SLLog(s, st, q, efv, l_c, log) ==
  IF st.st = "loop"
  THEN SLLog(s, SLGetNeighbor(s, st, l_c), q, efv, l_c,
             [log EXCEPT !.loops = @ + (IF st.C # <<>> THEN 1 ELSE 0)])
  ELSE IF st.st = "points"
  THEN LET st1 == SLGetPoints(s, st, q, efv)
       IN SLLog(s, st1, q, efv, l_c,
                [log EXCEPT !.pushes = @ + Len(st1.C) - Len(st.C),
                            !.pushed = @ \o Ascending(NodeIds(st1.C) \ NodeIds(st.C))])
  ELSE log

CallLog ==
  SLLog(kv, SLInit(fun.ep), fun.q, fun.efv, fun.l_c,
        [loops |-> 0, pushes |-> 0, pushed |-> <<>>])

(***************************************************************************)
(* C27  search_layer terminates on every finite layer graph, cycles        *)
(* included: each node id enters the candidate heap at most once (an entry *)
(* point when the heap is built, any other node by one push), and the main *)
(* loop runs at most (number of entry points + number of nodes in the      *)
(* layer) times.                                                           *)
(***************************************************************************)
C27_LoopBound ==
  fun.fn = "search_layer" =>
    \A log \in { CallLog } :
      /\ log.loops <= Len(fun.ep) + Cardinality(LayerIds)
      /\ log.pushes = Len(log.pushed)
      /\ \A a, b \in DOMAIN log.pushed : a # b => log.pushed[a] # log.pushed[b]
      /\ \A a \in DOMAIN log.pushed : log.pushed[a] \notin NodeIds(fun.ep)

\* a search around a cycle through every node of the layer
C27_Witness ==
  /\ fun.fn = "search_layer"
  /\ fun.l_c = 0
  /\ Len(fun.ep) = 1
  /\ DOMAIN Adj(0, 0) = {1} /\ DOMAIN Adj(0, 1) = {2} /\ DOMAIN Adj(0, 2) = {0}
  /\ CallLog.loops = 3
  /\ CallLog.pushes = 2

(***************************************************************************)
(* C22  Every insertVector call that reports success returns as vectorId   *)
(* the id under which the vector and the metadata of that call are stored, *)
(* and distinct successful calls return distinct vectorIds, also when      *)
(* several calls on the contract are in flight at once.                    *)
(***************************************************************************)
C22_ReturnedIdIsOwn ==
  /\ \A p \in {1, 2} :
       (svc[p].pc = "done" /\ svc[p].success) =>
         /\ has_point(kv, svc[p].vectorId)
         /\ get_point(kv, svc[p].vectorId) = svc[p].q
         /\ get_metadata(kv, svc[p].vectorId) = svc[p].metadata
  /\ (svc[1].pc = "done" /\ svc[1].success /\ svc[2].pc = "done" /\ svc[2].success)
       => svc[1].vectorId # svc[2].vectorId

(***************************************************************************)
(* C30  The quota gate holds under any interleaving of the insert requests *)
(* of one user: the number of memories created for the user never exceeds  *)
(* quotaLimit, and after the requests finish quotaUsed equals the number   *)
(* of memories created.                                                    *)
(***************************************************************************)
C30_QuotaGate ==
  /\ qta.created <= qta.quotaLimit
  /\ (\A p \in 1 .. QuotaMaxReqs : qta.req[p].pc = "done") => qta.quotaUsed = qta.created

=============================================================================
